---- MODULE Spec2Model ----
(***************************************************************************)
(* The hash-bucket step of the compactor                                   *)
(* (deltacat/compute/compactor/steps/hash_bucket.py).                      *)
(*                                                                         *)
(* Python values are modelled as follows.                                  *)
(*   str              a sequence of one-character strings                  *)
(*   bytes            a sequence of byte values                            *)
(*   None             <<>>, and a value x that may be None is <<x>>        *)
(*   list             a sequence (Python position p is element p + 1)      *)
(*   np.ndarray       a function on 0 .. n-1                               *)
(*   pa.Table         a function from column names to columns, a column    *)
(*                    being [type, values]                                 *)
(*   a raised error   the field err of an operator's result, "" for none   *)
(***************************************************************************)
EXTENDS Integers, Sequences, FiniteSets, TLC

\* ------------------------------------------------------------------ bounds
\* rows of a table handed to group_by_pk_hash_bucket on its own
MaxRows == 3
\* the largest num_buckets of a task
MaxBuckets == 2
\* annotated delta manifests of one task
MaxManifests == 2
\* annotations of one task, over all its manifests
MaxAnnotations == 2
\* tables the storage hands to one task, over all its manifests
MaxTables == 2
\* rows the storage hands to one task, over all its tables
MaxTaskRows == 2

\* ------------------------------------------------------------ Python values
None == <<>>
Some(x) == <<x>>

Range(s) == {s[i] : i \in DOMAIN s}

RECURSIVE Sum(_, _)
Sum(f, S) == IF S = {} THEN 0
             ELSE LET x == CHOOSE y \in S : TRUE IN f[x] + Sum(f, S \ {x})

RECURSIVE Concat(_)
Concat(ss) == IF ss = <<>> THEN <<>> ELSE Head(ss) \o Concat(Tail(ss))

\* a cell of an Arrow column: a 64-bit integer, a string, or null
IntCell(n) == [kind |-> "int", i |-> n, s |-> <<>>]
StrCell(cs) == [kind |-> "str", i |-> 0, s |-> cs]
NullCell == [kind |-> "null", i |-> 0, s |-> <<>>]
\* what a NumPy array can hold besides: a float64 (here always integral or
\* NaN) and the object None
FloatCell(n) == [kind |-> "float", i |-> n, s |-> <<>>]
NaNCell == [kind |-> "nan", i |-> 0, s |-> <<>>]
NoneCell == [kind |-> "None", i |-> 0, s |-> <<>>]

Digits == <<"0", "1", "2", "3", "4", "5", "6", "7", "8", "9">>

RECURSIVE Decimal(_)
Decimal(n) == IF n < 10 THEN <<Digits[n + 1]>>
              ELSE Decimal(n \div 10) \o <<Digits[(n % 10) + 1]>>

\* str(x) of an element of a NumPy array, as characters
str(x) ==
    CASE x.kind = "int" -> Decimal(x.i)
      [] x.kind = "float" -> Decimal(x.i) \o <<".", "0">>
      [] x.kind = "nan" -> <<"n", "a", "n">>
      [] x.kind = "None" -> <<"N", "o", "n", "e">>
      [] x.kind = "str" -> x.s

\* bytes(s, "utf-8"): every character of the model is ASCII, one byte each
Ord(c) ==
    CASE c = "0" -> 48 [] c = "1" -> 49 [] c = "2" -> 50 [] c = "3" -> 51
      [] c = "4" -> 52 [] c = "5" -> 53 [] c = "6" -> 54 [] c = "7" -> 55
      [] c = "8" -> 56 [] c = "9" -> 57 [] c = "." -> 46 [] c = "N" -> 78
      [] c = "L" -> 76 [] c = "a" -> 97 [] c = "b" -> 98 [] c = "e" -> 101
      [] c = "f" -> 102 [] c = "k" -> 107 [] c = "l" -> 108 [] c = "n" -> 110
      [] c = "o" -> 111 [] c = "u" -> 117

bytes(s) == [i \in 1..Len(s) |-> Ord(s[i])]

_PK_BYTES_DELIMITER == bytes(<<"L", "6", "k", "l", "7", "u", "5", "f">>)

\* delimiter.join(parts)
RECURSIVE join(_, _)
join(delimiter, parts) ==
    IF parts = <<>> THEN <<>>
    ELSE IF Len(parts) = 1 THEN parts[1]
    ELSE parts[1] \o delimiter \o join(delimiter, Tail(parts))

\* deltacat.utils.common.sha1_digest: a fixed-size digest of a byte string,
\* the same for the same bytes.  SHA-1 itself is stood in for by a
\* polynomial checksum.
RECURSIVE sha1_digest(_)
sha1_digest(bs) ==
    IF bs = <<>> THEN 7
    ELSE (sha1_digest(SubSeq(bs, 1, Len(bs) - 1)) * 31 + bs[Len(bs)]) % 65521

\* ------------------------------------------------------------------ tables
num_rows(t) == Len(t[CHOOSE c \in DOMAIN t : TRUE].values)

HasNull(column) == \E i \in DOMAIN column.values : column.values[i].kind = "null"

\* ChunkedArray.to_numpy(): always a copy.  A column without nulls keeps its
\* values; with nulls, an integer column becomes float64 with NaN for null,
\* and a string column an object array with None for null.  Nothing is
\* raised.
to_numpy(column) ==
    IF ~HasNull(column) THEN column.values
    ELSE [i \in DOMAIN column.values |->
            LET x == column.values[i] IN
            CASE x.kind = "int" -> FloatCell(x.i)
              [] x.kind = "str" -> x
              [] x.kind = "null" ->
                    IF column.type = "int64" THEN NaNCell ELSE NoneCell]

\* the digests hash_pk_bytes_generator yields, in row order; the IndexError
\* of all_column_fields[0] when there is no primary key column
hash_pk_bytes_generator(all_column_fields) ==
    IF all_column_fields = <<>> THEN [err |-> "IndexError", val |-> <<>>]
    ELSE [err |-> "",
          val |-> [field_index \in 1..Len(all_column_fields[1]) |->
                     sha1_digest(join(_PK_BYTES_DELIMITER,
                        [c \in DOMAIN all_column_fields |->
                            bytes(str(all_column_fields[c][field_index]))]))]]

\* system_columns.append_pk_hash_column
append_pk_hash_column(t, hashes) ==
    [c \in DOMAIN t \cup {"pk_hash"} |->
        IF c = "pk_hash" THEN [type |-> "binary", values |-> hashes] ELSE t[c]]

\* system_columns.append_record_idx_col
append_record_idx_col(t, ordered_record_indices) ==
    [c \in DOMAIN t \cup {"record_idx"} |->
        IF c = "record_idx"
        THEN [type |-> "int64", values |-> ordered_record_indices]
        ELSE t[c]]

\* Table.drop(columns)
drop(t, columns) == [c \in DOMAIN t \ Range(columns) |-> t[c]]

\* Table.take(indices): the rows at the given 0-based positions, in order
take(t, indices) ==
    [c \in DOMAIN t |->
        [type |-> t[c].type,
         values |-> [j \in 1..Len(indices) |-> t[c].values[indices[j] + 1]]]]

\* truth value of a list or Table that may be None
Truthy(opt) == opt # None /\ Len(opt[1]) > 0
TruthyTable(opt) == opt # None /\ num_rows(opt[1]) > 0

\* primary_key_index.group_record_indices_by_hash_bucket: for each bucket the
\* row positions whose digest falls in it, ascending, or None for no row;
\* the bucket of a digest is the digest modulo num_buckets
group_record_indices_by_hash_bucket(t, num_buckets) ==
    IF num_buckets <= 0 THEN [err |-> "InvalidArgument", val |-> <<>>]
    ELSE [err |-> "",
          val |-> [b \in 0..(num_buckets - 1) |->
                    LET positions == [p \in 1..num_rows(t) |-> p - 1]
                        mine == SelectSeq(positions,
                                  LAMBDA p : t["pk_hash"].values[p + 1]
                                               % num_buckets = b)
                    IN IF mine = <<>> THEN None ELSE Some(mine)]]

\* lines 30-34: the primary key columns as NumPy arrays
all_pk_column_fields(t, primary_keys) ==
    [k \in DOMAIN primary_keys |-> to_numpy(t[primary_keys[k]])]

\* materialize with the last bucket left out of the loop
materialize_short_loop(t, num_buckets, hash_bucket_to_indices) ==
    [hash_bucket \in 0..(num_buckets - 1) |->
        LET indices == hash_bucket_to_indices[hash_bucket] IN
        IF hash_bucket < num_buckets - 1 /\ Truthy(indices)
        THEN Some(append_record_idx_col(take(t, indices[1]), indices[1]))
        ELSE None]

\* materialize recording each row's position in the sub-table
materialize_local_positions(t, num_buckets, hash_bucket_to_indices) ==
    [hash_bucket \in 0..(num_buckets - 1) |->
        LET indices == hash_bucket_to_indices[hash_bucket] IN
        IF Truthy(indices)
        THEN Some(append_record_idx_col(take(t, indices[1]),
                    [j \in 1..Len(indices[1]) |-> j - 1]))
        ELSE None]

\* lines 47-55: the sub-table of every bucket that has rows
materialize(t, num_buckets, hash_bucket_to_indices) ==
    [hash_bucket \in 0..(num_buckets - 1) |->
        LET indices == hash_bucket_to_indices[hash_bucket] IN
        IF Truthy(indices)
        THEN Some(append_record_idx_col(take(t, indices[1]), indices[1]))
        ELSE None]

\* group_by_pk_hash_bucket: err, the number of digests computed before it
\* returned or raised, and the array of sub-tables
group_by_pk_hash_bucket(t, num_buckets, primary_keys) ==
    LET gen == hash_pk_bytes_generator(all_pk_column_fields(t, primary_keys))
    IN  IF gen.err # "" THEN [err |-> gen.err, hashed |-> 0, out |-> <<>>]
        ELSE
        LET hashed == drop(append_pk_hash_column(t, gen.val), primary_keys)
            grouped == group_record_indices_by_hash_bucket(hashed, num_buckets)
        IN  IF grouped.err # ""
            THEN [err |-> grouped.err, hashed |-> Len(gen.val), out |-> <<>>]
            ELSE [err |-> "", hashed |-> Len(gen.val),
                  out |-> materialize(hashed, num_buckets, grouped.val)]

\* ------------------------------------------------------------------ inputs
\* the columns of every table: k1 of strings, k2 of 64-bit integers
K1Cells == {StrCell(<<"a">>), StrCell(<<"b">>)}
K2Cells == {IntCell(1), NullCell}

RowSeqs(n) == UNION {[1..m -> K1Cells \X K2Cells] : m \in 0..n}

TableOf(rows) ==
    [c \in {"k1", "k2"} |->
        IF c = "k1"
        THEN [type |-> "string", values |-> [i \in DOMAIN rows |-> rows[i][1]]]
        ELSE [type |-> "int64", values |-> [i \in DOMAIN rows |-> rows[i][2]]]]

Tables(n) == {TableOf(rows) : rows \in RowSeqs(n)}

NumBucketsChoices == -1..MaxBuckets
PrimaryKeysChoices == {<<>>, <<"k1">>, <<"k1", "k2">>}

\* the deltas a task may be given: their stream position and delta type
Deltas == {[stream_position |-> 20, delta_type |-> "upsert"],
           [stream_position |-> 10, delta_type |-> "delete"]}

\* an annotated delta manifest of k files: annotation i is file i of the delta
AnnotatedDeltaManifest(delta, k) ==
    [stream_position |-> delta.stream_position,
     annotations |->
        [i \in 1..k |-> [stream_position |-> delta.stream_position,
                         file_index |-> i - 1,
                         delta_type |-> delta.delta_type]]]

Manifests == {AnnotatedDeltaManifest(d, k) : d \in Deltas, k \in 0..MaxAnnotations}
\* the manifests of a task: of different deltas, MaxAnnotations annotations
\* in all
ManifestLists ==
    {ms \in UNION {[1..m -> Manifests] : m \in 0..MaxManifests} :
        /\ \A i \in DOMAIN ms : \A j \in DOMAIN ms :
            i # j => ms[i].stream_position # ms[j].stream_position
        /\ Sum([i \in DOMAIN ms |-> Len(ms[i].annotations)], DOMAIN ms)
            <= MaxAnnotations}

\* delta_manifest_annotated and delta_file_envelope accessors
get_annotations(annotated_delta_manifest) == annotated_delta_manifest.annotations
delta_file_envelope_of(stream_position, file_index, delta_type, t) ==
    [stream_position |-> stream_position, file_index |-> file_index,
     delta_type |-> delta_type, table |-> t]

Min(a, b) == IF a < b THEN a ELSE b

\* ------------------------------------------------------------------- state
VARIABLES
    pc,                 \* where the task is
    error,              \* the error that ended it, "" for none
    annotated_delta_manifests,
    num_buckets,
    primary_keys,
    tables_and_annotations,
    delta_file_envelopes,       \* read_delta_file_envelopes' result
    hb_to_delta_file_envelopes,
    dfe_index,          \* envelopes the loop of lines 91-107 has handled
    table,              \* the table of the last group_by_pk_hash_bucket call
    hash_bucket_to_table,   \* what that call returned, None if it raised
    delta_file_envelope_groups, \* group_file_records_by_pk_hash_bucket's result
    download_calls,     \* calls of download_delta_manifest
    digests_computed,   \* digests computed so far
    assembler_calls,    \* calls of group_hash_bucket_indices
    placed,             \* what group_hash_bucket_indices was given to place
    assigned            \* every (primary key values, bucket) assigned so far

vars == <<pc, error, annotated_delta_manifests, num_buckets, primary_keys,
          tables_and_annotations, delta_file_envelopes,
          hb_to_delta_file_envelopes, dfe_index, table, hash_bucket_to_table,
          delta_file_envelope_groups, download_calls, digests_computed,
          assembler_calls, placed, assigned>>

task_vars == <<annotated_delta_manifests, tables_and_annotations,
               delta_file_envelopes, hb_to_delta_file_envelopes, dfe_index,
               delta_file_envelope_groups, download_calls, assembler_calls,
               placed>>

\* the primary key values of the row at 0-based position p of t
pk_values(t, pks, p) == [k \in DOMAIN pks |-> t[pks[k]].values[p + 1]]

\* the (primary key values, bucket) pairs of one returned array, each row
\* found through its recorded position
Assignments(t, pks, out) ==
    UNION {IF out[b] = None THEN {}
           ELSE {[key |-> pk_values(t, pks, out[b][1]["record_idx"].values[j]),
                  bucket |-> b] :
                    j \in {j \in 1..num_rows(out[b][1]) :
                            out[b][1]["record_idx"].values[j]
                                \in 0..(num_rows(t) - 1)}} :
           b \in DOMAIN out}

\* ------------------------------------------- group_by_pk_hash_bucket alone
InitPartition ==
    /\ pc = "partition"
    /\ error = ""
    /\ annotated_delta_manifests = <<>>
    /\ num_buckets \in NumBucketsChoices
    /\ primary_keys \in PrimaryKeysChoices
    /\ tables_and_annotations = <<>>
    /\ delta_file_envelopes = None
    /\ hb_to_delta_file_envelopes = <<>>
    /\ dfe_index = 0
    /\ table = None
    /\ hash_bucket_to_table = None
    /\ delta_file_envelope_groups = None
    /\ download_calls = 0
    /\ digests_computed = 0
    /\ assembler_calls = 0
    /\ placed = None
    /\ assigned = {}

\* one call of group_by_pk_hash_bucket(t, num_buckets, primary_keys)
Partition(t) ==
    /\ pc = "partition"
    /\ table = None
    /\ LET r == group_by_pk_hash_bucket(t, num_buckets, primary_keys) IN
        /\ table' = Some(t)
        /\ error' = r.err
        /\ digests_computed' = r.hashed
        /\ hash_bucket_to_table' = IF r.err = "" THEN Some(r.out) ELSE None
        /\ assigned' = IF r.err = ""
                       THEN assigned \cup Assignments(t, primary_keys, r.out)
                       ELSE assigned
    /\ UNCHANGED <<pc, num_buckets, primary_keys, task_vars>>

\* the caller lets go of the table and of the result
Release ==
    /\ pc = "partition"
    /\ table # None
    /\ table' = None
    /\ hash_bucket_to_table' = None
    /\ error' = ""
    /\ digests_computed' = 0
    /\ UNCHANGED <<pc, num_buckets, primary_keys, assigned, task_vars>>

NextPartition ==
    \/ \E t \in Tables(MaxRows) : Partition(t)
    \/ Release

SpecPartition == InitPartition /\ [][NextPartition]_vars

\* ---------------------------------------------------------------- the task
\* assert(x): passes when x is true in Python's sense.  On lines 138-141 x is
\* a tuple of two elements, the comparison and the message.
truth_of_tuple(tuple) == Len(tuple) > 0

\* lines 137-142: the check of one download, then the pair kept
check_download(tables, annotations) ==
    IF truth_of_tuple(<<Len(tables) = Len(annotations), "Unexpected Error">>)
    THEN [err |-> "", val |-> <<tables, annotations>>]
    ELSE [err |-> "AssertionError", val |-> <<>>]

\* envelopes_of_pair reading the first annotation for every table
envelopes_of_pair_first_annotation(tables, annotations) ==
    IF Len(tables) > Len(annotations) THEN [err |-> "IndexError", val |-> <<>>]
    ELSE [err |-> "",
          val |-> [i \in 1..Len(tables) |->
                    delta_file_envelope_of(annotations[1].stream_position,
                                           annotations[1].file_index,
                                           annotations[1].delta_type,
                                           tables[i])]]

\* lines 148-155 for one (tables, annotations) pair: annotations[i] raises
\* IndexError when there are more tables than annotations
envelopes_of_pair(tables, annotations) ==
    IF Len(tables) > Len(annotations) THEN [err |-> "IndexError", val |-> <<>>]
    ELSE [err |-> "",
          val |-> [i \in 1..Len(tables) |->
                    delta_file_envelope_of(annotations[i].stream_position,
                                           annotations[i].file_index,
                                           annotations[i].delta_type,
                                           tables[i])]]

\* build_delta_file_envelopes returning None for an empty envelope list too
build_delta_file_envelopes_none_if_empty(pairs) ==
    IF pairs = <<>> THEN [err |-> "", val |-> None]
    ELSE LET each == [k \in DOMAIN pairs |->
                        envelopes_of_pair(pairs[k][1], pairs[k][2])]
         IN  IF \E k \in DOMAIN each : each[k].err # ""
             THEN [err |-> "IndexError", val |-> None]
             ELSE IF Concat([k \in DOMAIN each |-> each[k].val]) = <<>>
             THEN [err |-> "", val |-> None]
             ELSE [err |-> "",
                   val |-> Some(Concat([k \in DOMAIN each |-> each[k].val]))]

\* lines 143-156: None for no pair at all, else the envelopes of every pair
build_delta_file_envelopes(pairs) ==
    IF pairs = <<>> THEN [err |-> "", val |-> None]
    ELSE LET each == [k \in DOMAIN pairs |->
                        envelopes_of_pair(pairs[k][1], pairs[k][2])]
         IN  IF \E k \in DOMAIN each : each[k].err # ""
             THEN [err |-> "IndexError", val |-> None]
             ELSE [err |-> "",
                   val |-> Some(Concat([k \in DOMAIN each |-> each[k].val]))]

\* np.empty([n], dtype="object"): n slots of None, a ValueError for n < 0
np_empty(n) ==
    IF n < 0 THEN [err |-> "ValueError", val |-> <<>>]
    ELSE [err |-> "", val |-> [b \in 0..(n - 1) |-> None]]

\* append_envelopes putting the new envelope at the head of the list
append_envelopes_at_head(hb, dfe, hb_to_table) ==
    [hash_bucket \in DOMAIN hb |->
        IF hash_bucket \in DOMAIN hb_to_table
           /\ TruthyTable(hb_to_table[hash_bucket])
        THEN Some(<<delta_file_envelope_of(dfe.stream_position,
                                           dfe.file_index,
                                           dfe.delta_type,
                                           hb_to_table[hash_bucket][1])>>
                  \o (IF hb[hash_bucket] = None THEN <<>>
                      ELSE hb[hash_bucket][1]))
        ELSE hb[hash_bucket]]

\* lines 97-107: the sub-tables of one envelope appended to the bucket lists
append_envelopes(hb, dfe, hb_to_table) ==
    [hash_bucket \in DOMAIN hb |->
        IF hash_bucket \in DOMAIN hb_to_table
           /\ TruthyTable(hb_to_table[hash_bucket])
        THEN Some((IF hb[hash_bucket] = None THEN <<>> ELSE hb[hash_bucket][1])
                  \o <<delta_file_envelope_of(dfe.stream_position,
                                              dfe.file_index,
                                              dfe.delta_type,
                                              hb_to_table[hash_bucket][1])>>)
        ELSE hb[hash_bucket]]

\* the rows of the files in storage: none holds a null
FileRowSeqs(n) == UNION {[1..m -> K1Cells \X {IntCell(1)}] : m \in 0..n}

\* rows cut into m tables after the rows numbered cuts[1] <= ... <= cuts[m-1]
CutIntoTables(rows, m, cuts) ==
    [i \in 1..m |->
        TableOf(SubSeq(rows,
                       (IF i = 1 THEN 0 ELSE cuts[i - 1]) + 1,
                       IF i = m THEN Len(rows) ELSE cuts[i]))]

\* the tables of one download: any number up to one more than the
\* annotations, within the room left for tables and for rows
FileTableLists(annotations, room, row_room) ==
    {<<>>} \cup
    UNION {UNION {{CutIntoTables(rows, m, cuts) :
                    cuts \in {c \in [1..(m - 1) -> 0..Len(rows)] :
                                \A i \in 1..(m - 2) : c[i] <= c[i + 1]}} :
                  rows \in FileRowSeqs(row_room)} :
           m \in 1..Min(Len(annotations) + 1, room)}

TablesSoFar ==
    Sum([k \in DOMAIN tables_and_annotations |->
            Len(tables_and_annotations[k][1])],
        DOMAIN tables_and_annotations)

RowsSoFar ==
    Sum([k \in DOMAIN tables_and_annotations |->
            Sum([i \in DOMAIN tables_and_annotations[k][1] |->
                    num_rows(tables_and_annotations[k][1][i])],
                DOMAIN tables_and_annotations[k][1])],
        DOMAIN tables_and_annotations)

Init ==
    /\ pc = "read"
    /\ error = ""
    /\ annotated_delta_manifests \in ManifestLists
    /\ num_buckets \in NumBucketsChoices
    /\ primary_keys \in PrimaryKeysChoices
    /\ tables_and_annotations = <<>>
    /\ delta_file_envelopes = None
    /\ hb_to_delta_file_envelopes = <<>>
    /\ dfe_index = 0
    /\ table = None
    /\ hash_bucket_to_table = None
    /\ delta_file_envelope_groups = None
    /\ download_calls = 0
    /\ digests_computed = 0
    /\ assembler_calls = 0
    /\ placed = None
    /\ assigned = {}

\* lines 121-142, one turn of the loop: the storage returns tables or raises
download_delta_manifest ==
    /\ pc = "read"
    /\ Len(tables_and_annotations) < Len(annotated_delta_manifests)
    /\ download_calls' = download_calls + 1
    /\ LET annotated_delta_manifest ==
               annotated_delta_manifests[Len(tables_and_annotations) + 1]
           annotations == get_annotations(annotated_delta_manifest)
       IN  \/ \E tables \in FileTableLists(annotations, MaxTables - TablesSoFar,
                                          MaxTaskRows - RowsSoFar) :
                LET checked == check_download(tables, annotations) IN
                IF checked.err # ""
                THEN /\ pc' = "failed"
                     /\ error' = checked.err
                     /\ UNCHANGED tables_and_annotations
                ELSE /\ tables_and_annotations' =
                            Append(tables_and_annotations, checked.val)
                     /\ UNCHANGED <<pc, error>>
           \/ /\ pc' = "failed"
              /\ error' = "StorageError"
              /\ UNCHANGED tables_and_annotations
    /\ UNCHANGED <<annotated_delta_manifests, num_buckets, primary_keys,
                   delta_file_envelopes, hb_to_delta_file_envelopes, dfe_index,
                   table, hash_bucket_to_table, delta_file_envelope_groups,
                   digests_computed, assembler_calls, placed, assigned>>

\* lines 143-156, then 86-90 (and 108 when there is no envelope to group)
read_delta_file_envelopes ==
    /\ pc = "read"
    /\ Len(tables_and_annotations) = Len(annotated_delta_manifests)
    /\ LET read == build_delta_file_envelopes(tables_and_annotations)
           hb == np_empty(num_buckets)
       IN  IF read.err # ""
           THEN /\ pc' = "failed"
                /\ error' = read.err
                /\ UNCHANGED <<delta_file_envelopes, hb_to_delta_file_envelopes,
                               delta_file_envelope_groups>>
           ELSE IF read.val = None
           THEN /\ pc' = "assemble"
                /\ delta_file_envelopes' = None
                /\ delta_file_envelope_groups' = None
                /\ UNCHANGED <<error, hb_to_delta_file_envelopes>>
           ELSE IF hb.err # ""
           THEN /\ pc' = "failed"
                /\ error' = hb.err
                /\ delta_file_envelopes' = read.val
                /\ UNCHANGED <<hb_to_delta_file_envelopes,
                               delta_file_envelope_groups>>
           ELSE /\ delta_file_envelopes' = read.val
                /\ hb_to_delta_file_envelopes' = hb.val
                /\ IF read.val[1] = <<>>
                   THEN /\ pc' = "assemble"
                        /\ delta_file_envelope_groups' = Some(hb.val)
                   ELSE /\ pc' = "group"
                        /\ UNCHANGED delta_file_envelope_groups
                /\ UNCHANGED error
    /\ UNCHANGED <<annotated_delta_manifests, num_buckets, primary_keys,
                   tables_and_annotations, dfe_index, table,
                   hash_bucket_to_table, download_calls, digests_computed,
                   assembler_calls, placed, assigned>>

\* lines 91-107, one turn of the loop (and 108 after the last)
group_file_records_by_pk_hash_bucket ==
    /\ pc = "group"
    /\ LET dfe == delta_file_envelopes[1][dfe_index + 1]
           r == group_by_pk_hash_bucket(dfe.table, num_buckets, primary_keys)
           hb == append_envelopes(hb_to_delta_file_envelopes, dfe, r.out)
       IN  /\ table' = Some(dfe.table)
           /\ digests_computed' = digests_computed + r.hashed
           /\ IF r.err # ""
              THEN /\ pc' = "failed"
                   /\ error' = r.err
                   /\ hash_bucket_to_table' = None
                   /\ UNCHANGED <<hb_to_delta_file_envelopes, dfe_index,
                                  delta_file_envelope_groups, assigned>>
              ELSE /\ hash_bucket_to_table' = Some(r.out)
                   /\ hb_to_delta_file_envelopes' = hb
                   /\ dfe_index' = dfe_index + 1
                   /\ assigned' = assigned
                           \cup Assignments(dfe.table, primary_keys, r.out)
                   /\ IF dfe_index + 1 = Len(delta_file_envelopes[1])
                      THEN /\ pc' = "assemble"
                           /\ delta_file_envelope_groups' = Some(hb)
                      ELSE UNCHANGED <<pc, delta_file_envelope_groups>>
                   /\ UNCHANGED error
    /\ UNCHANGED <<annotated_delta_manifests, num_buckets, primary_keys,
                   tables_and_annotations, delta_file_envelopes,
                   download_calls, assembler_calls, placed>>

\* lines 179-185: the Group Assembler is given the bucket lists to place
hash_bucket ==
    /\ pc = "assemble"
    /\ pc' = "done"
    /\ assembler_calls' = assembler_calls + 1
    /\ placed' = delta_file_envelope_groups
    /\ UNCHANGED <<error, annotated_delta_manifests, num_buckets, primary_keys,
                   tables_and_annotations, delta_file_envelopes,
                   hb_to_delta_file_envelopes, dfe_index, table,
                   hash_bucket_to_table, delta_file_envelope_groups,
                   download_calls, digests_computed, assigned>>

Next ==
    \/ download_delta_manifest
    \/ read_delta_file_envelopes
    \/ group_file_records_by_pk_hash_bucket
    \/ hash_bucket

Spec == Init /\ [][Next]_vars

\* ------------------------------------------------------------------ claims
\* the digests of the rows of t, in row order
RowDigests(t) ==
    hash_pk_bytes_generator(all_pk_column_fields(t, primary_keys)).val

\* the 0-based positions of the rows of t that belong in bucket b, ascending
PositionsIn(t, b) ==
    SelectSeq([p \in 1..num_rows(t) |-> p - 1],
              LAMBDA p : RowDigests(t)[p + 1] % num_buckets = b)

\* the rows of the sub-tables of the last call, as <<bucket, row>> pairs
SubRows ==
    UNION {IF hash_bucket_to_table[1][b] = None THEN {}
           ELSE {<<b, j>> : j \in 1..num_rows(hash_bucket_to_table[1][b][1])} :
           b \in DOMAIN hash_bucket_to_table[1]}

RecordedPosition(r) ==
    hash_bucket_to_table[1][r[1]][1]["record_idx"].values[r[2]]

\* a primary key column of the table of the last call holds a null
NullInPrimaryKey ==
    /\ table # None
    /\ \E k \in DOMAIN primary_keys : HasNull(table[1][primary_keys[k]])

\* C1: two rows with equal primary key values are never assigned to
\* different buckets, whichever tables or calls they were in
BucketStability ==
    \A x \in assigned : \A y \in assigned : x.key = y.key => x.bucket = y.bucket

\* C2: when group_by_pk_hash_bucket returns for num_buckets > 0, the row
\* counts of the sub-tables add up to the row count of the table
RowConservation ==
    (hash_bucket_to_table # None /\ num_buckets > 0) =>
        /\ DOMAIN hash_bucket_to_table[1] = 0..(num_buckets - 1)
        /\ Sum([b \in DOMAIN hash_bucket_to_table[1] |->
                    IF hash_bucket_to_table[1][b] = None THEN 0
                    ELSE num_rows(hash_bucket_to_table[1][b][1])],
               DOMAIN hash_bucket_to_table[1]) = num_rows(table[1])

\* C2's case: three rows spread over two buckets
RowConservationWitness ==
    /\ hash_bucket_to_table # None
    /\ num_buckets = 2
    /\ num_rows(table[1]) = 3
    /\ \A b \in DOMAIN hash_bucket_to_table[1] : hash_bucket_to_table[1][b] # None

\* C8: every sub-table row records a position of the table, the row there has
\* the sub-table row's digest, and no position is recorded twice
PositionRecoverability ==
    hash_bucket_to_table # None =>
        /\ \A r \in SubRows :
            /\ RecordedPosition(r) \in 0..(num_rows(table[1]) - 1)
            /\ hash_bucket_to_table[1][r[1]][1]["pk_hash"].values[r[2]]
                = RowDigests(table[1])[RecordedPosition(r) + 1]
        /\ \A r1 \in SubRows : \A r2 \in SubRows :
            RecordedPosition(r1) = RecordedPosition(r2) => r1 = r2

\* C8's case: a bucket whose rows are not the first rows of the table
PositionRecoverabilityWitness ==
    /\ hash_bucket_to_table # None
    /\ \E r \in SubRows : RecordedPosition(r) # r[2] - 1

\* C5: a null in a primary key column makes the call fail (whatever the
\* error is called), with no digest computed and no row assigned to a bucket
NullRejection ==
    (NullInPrimaryKey /\ num_buckets > 0) =>
        /\ error # ""
        /\ digests_computed = 0
        /\ hash_bucket_to_table = None

\* the envelopes read, and those the grouping loop has handled
Envelopes == IF delta_file_envelopes = None THEN <<>> ELSE delta_file_envelopes[1]

BucketList(b) ==
    IF hb_to_delta_file_envelopes[b] = None THEN <<>>
    ELSE hb_to_delta_file_envelopes[b][1]

\* the handled envelopes with a row in bucket b, in the order they were read
Contributors(b) ==
    SelectSeq([e \in 1..dfe_index |-> e],
              LAMBDA e : PositionsIn(Envelopes[e].table, b) # <<>>)

\* C3: the list of bucket b holds one envelope for each handled input envelope
\* with a row in b, in input order, each with that envelope's rows of b
PerBucketEnvelopeOrder ==
    \A b \in DOMAIN hb_to_delta_file_envelopes :
        /\ Len(BucketList(b)) = Len(Contributors(b))
        /\ hb_to_delta_file_envelopes[b] = None <=> Contributors(b) = <<>>
        /\ \A j \in 1..Len(Contributors(b)) :
            LET source == Envelopes[Contributors(b)[j]].table
                sub == BucketList(b)[j].table
            IN  /\ sub["record_idx"].values = PositionsIn(source, b)
                /\ sub["pk_hash"].values =
                    [i \in 1..Len(PositionsIn(source, b)) |->
                        RowDigests(source)[PositionsIn(source, b)[i] + 1]]

\* C3's case: a bucket with two envelopes from different manifests whose
\* stream positions descend
PerBucketEnvelopeOrderWitness ==
    /\ pc = "done"
    /\ \E b \in DOMAIN hb_to_delta_file_envelopes :
        /\ Len(BucketList(b)) = 2
        /\ BucketList(b)[1].stream_position > BucketList(b)[2].stream_position
        /\ BucketList(b)[1].table # BucketList(b)[2].table

\* envelopes read before those of pair k
RECURSIVE Offset(_)
Offset(k) == IF k = 1 THEN 0
             ELSE Offset(k - 1) + Len(tables_and_annotations[k - 1][1])

Provenance(e) == <<e.stream_position, e.file_index, e.delta_type>>

\* C9: an envelope in a bucket list has the stream position, file index and
\* delta type of the input envelope its rows came from, and an input envelope
\* has those of the annotation at the position of its table
ProvenancePreservation ==
    /\ \A b \in DOMAIN hb_to_delta_file_envelopes :
        \A j \in 1..Min(Len(BucketList(b)), Len(Contributors(b))) :
            Provenance(BucketList(b)[j])
                = Provenance(Envelopes[Contributors(b)[j]])
    /\ delta_file_envelopes # None =>
        \A k \in DOMAIN tables_and_annotations :
            \A i \in 1..Len(tables_and_annotations[k][1]) :
                /\ Offset(k) + i \in DOMAIN Envelopes
                /\ Envelopes[Offset(k) + i].table
                    = tables_and_annotations[k][1][i]
                /\ Provenance(Envelopes[Offset(k) + i])
                    = Provenance(tables_and_annotations[k][2][i])

\* C9's case: the second file of a delta has reached a bucket list
ProvenancePreservationWitness ==
    /\ pc = "done"
    /\ \E b \in DOMAIN hb_to_delta_file_envelopes :
        \E j \in 1..Len(BucketList(b)) : BucketList(b)[j].file_index = 1

\* the aggregator has returned
Returned == pc \in {"assemble", "done"}

\* C10: with no manifest the reader and the aggregator return None and the
\* storage is not called; with manifests the aggregator returns an array of
\* num_buckets slots
EmptyInputYieldsNoData ==
    /\ annotated_delta_manifests = <<>> => download_calls = 0
    /\ Returned =>
        IF annotated_delta_manifests = <<>>
        THEN delta_file_envelopes = None /\ delta_file_envelope_groups = None
        ELSE /\ delta_file_envelope_groups # None
             /\ DOMAIN delta_file_envelope_groups[1] = 0..(num_buckets - 1)

\* C10's case: a task without manifests has finished
EmptyInputYieldsNoDataWitness ==
    /\ pc = "done"
    /\ annotated_delta_manifests = <<>>
    /\ placed = None

\* a download returned a number of tables other than that of the annotations
Mismatch ==
    \E k \in DOMAIN tables_and_annotations :
        Len(tables_and_annotations[k][1]) # Len(tables_and_annotations[k][2])

\* C4: once the reader is past a mismatched download, a task with a positive
\* num_buckets and a primary key has failed (whatever the error is called)
\* and there are no envelopes
MismatchIsFatal ==
    (Mismatch /\ pc # "read" /\ num_buckets > 0 /\ primary_keys # <<>>) =>
        /\ pc = "failed"
        /\ error # ""
        /\ delta_file_envelopes = None

\* C6: with num_buckets not positive or no primary key the storage is never
\* called, no digest is computed and no row is assigned to a bucket
ArgumentValidationFirst ==
    (num_buckets <= 0 \/ primary_keys = <<>>) =>
        /\ download_calls = 0
        /\ digests_computed = 0
        /\ assigned = {}

\* C7: the Group Assembler is called at most once, only after every download
\* and every envelope went through without error or mismatch, and never in a
\* task that failed
NoPartialSuccess ==
    /\ assembler_calls <= 1
    /\ assembler_calls = 1 =>
        /\ error = ""
        /\ (num_buckets > 0 /\ primary_keys # <<>>) => ~Mismatch
        /\ Len(tables_and_annotations) = Len(annotated_delta_manifests)
        /\ dfe_index = Len(Envelopes)
    /\ pc = "failed" => (assembler_calls = 0 /\ placed = None)

====
